---- MODULE Spec2Model ----
(***************************************************************************)
(* Model of the segment coordinator of lib/segment/src/segment.rs: the     *)
(* version gate, the point and payload mutations over the identifier       *)
(* index, the vector store and the payload store, and the read accessors.  *)
(* The three stores are collaborators behind traits; they are modelled     *)
(* from their contracts (section 6 of the specification).                  *)
(***************************************************************************)
EXTENDS Integers, Sequences, FiniteSets, TLC

VARIABLES version, id_mapper, vector_storage, payload_storage, issued, applied, in_order,
          running, borrowed_mut, interrupted

vars == <<version, id_mapper, vector_storage, payload_storage, issued, applied, in_order,
          running, borrowed_mut, interrupted>>

(***************************************************************************)
(* Bounds of the model.                                                    *)
(***************************************************************************)
MaxOpNum == 1
MaxOffsets == 2
Dim == 2
MaxTop == 2

OpNums == 0..MaxOpNum
PointIds == {1, 2}
PayloadKeys == {"k", "k2"}
PayloadValues == {"v", "v2"}

\* The key/value pairs offered to set_payload: key "k" takes either value,
\* key "k2" takes "v2".
PayloadPairs == {<<"k", "v">>, <<"k", "v2">>, <<"k2", "v2">>}

\* Vectors offered to the segment: two of the store's dimension, one that is
\* one element short and one that is one element long.
GoodVectors == {[i \in 1..Dim |-> 0], [i \in 1..Dim |-> 1]}
BadVectors == {[i \in 1..(Dim - 1) |-> 1], [i \in 1..(Dim + 1) |-> 0]}
InputVectors == GoodVectors \cup BadVectors

\* TheMap<PayloadKeyType, PayloadType>: a function from some keys to values.
\* PayloadMaps are the maps made of the pairs above.
EmptyMap == << >>
PayloadMaps ==
    {m \in UNION {[D -> PayloadValues] : D \in SUBSET PayloadKeys} :
        \A k \in DOMAIN m : <<k, m[k]>> \in PayloadPairs}

MapPut(f, k, v) == [x \in (DOMAIN f) \cup {k} |-> IF x = k THEN v ELSE f[x]]
MapRemove(f, k) == [x \in (DOMAIN f) \ {k} |-> f[x]]

(***************************************************************************)
(* Option<T> is a set with at most one element.                            *)
(***************************************************************************)
None == {}
Some(x) == {x}
Unwrap(o) == CHOOSE x \in o : TRUE

(***************************************************************************)
(* Result<T>.                                                              *)
(***************************************************************************)
Ok(v) == [tag |-> "Ok", val |-> v]
WrongVector(e, r) == [tag |-> "WrongVector", expected_dim |-> e, received_dim |-> r]
PointIdError(p) == [tag |-> "PointIdError", missed_point_id |-> p]

(***************************************************************************)
(* Identifier index (trait IdMapper): a set of links <<external, offset>>. *)
(***************************************************************************)
IdMapper_internal_id(m, point_id) == {l[2] : l \in {x \in m : x[1] = point_id}}
IdMapper_external_id(m, internal_id) == {l[1] : l \in {x \in m : x[2] = internal_id}}
IdMapper_set_link(m, point_id, internal_id) ==
    {x \in m : x[1] # point_id} \cup {<<point_id, internal_id>>}
IdMapper_drop(m, point_id) == {x \in m : x[1] # point_id}

(***************************************************************************)
(* Vector store (trait VectorStorage): append-only vectors, offsets from   *)
(* 0, and the set of deleted offsets.                                      *)
(***************************************************************************)
VectorStorage_vector_dim(vs) == Dim
VectorStorage_put_vector(vs, vector) ==
    [vs |-> [vs EXCEPT !.vectors = Append(vs.vectors, vector)],
     ret |-> Len(vs.vectors)]
VectorStorage_delete(vs, key) == [vs EXCEPT !.deleted = vs.deleted \cup {key}]
VectorStorage_get_vector(vs, key) ==
    IF key \in vs.deleted \/ key < 0 \/ key >= Len(vs.vectors)
    THEN None ELSE Some(vs.vectors[key + 1])
VectorStorage_vector_count(vs) == Len(vs.vectors) - Cardinality(vs.deleted)
VectorStorage_deleted_count(vs) == Cardinality(vs.deleted)

(***************************************************************************)
(* Payload store (trait PayloadStorage): offset -> payload map.            *)
(***************************************************************************)
PayloadStorage_payload(ps, point_id) ==
    IF point_id \in DOMAIN ps THEN ps[point_id] ELSE EmptyMap
PayloadStorage_assign(ps, point_id, key, payload) ==
    MapPut(ps, point_id, MapPut(PayloadStorage_payload(ps, point_id), key, payload))
PayloadStorage_assign_all(ps, point_id, payload) == MapPut(ps, point_id, payload)
PayloadStorage_delete(ps, point_id, key) ==
    IF point_id \in DOMAIN ps
    THEN MapPut(ps, point_id, MapRemove(ps[point_id], key))
    ELSE ps
PayloadStorage_drop(ps, point_id) ==
    [ps |-> MapRemove(ps, point_id),
     ret |-> IF point_id \in DOMAIN ps THEN Some(ps[point_id]) ELSE None]

(***************************************************************************)
(* The segment: the fields the operations read and write.                  *)
(***************************************************************************)
Segment == [version |-> version, id_mapper |-> id_mapper,
            vector_storage |-> vector_storage, payload_storage |-> payload_storage]

\* update_vector as it would be if the captured payload were not re-attached
\* at the new offset.
update_vector_drop_payload(s, old_iternal_id, vector) ==
    LET dropped == PayloadStorage_drop(s.payload_storage, old_iternal_id)
        put == VectorStorage_put_vector(
                   VectorStorage_delete(s.vector_storage, old_iternal_id), vector)
    IN [s |-> [s EXCEPT !.payload_storage = dropped.ps, !.vector_storage = put.vs],
        ret |-> put.ret]

\* Segment::update_vector
update_vector(s, old_iternal_id, vector) ==
    LET dropped == PayloadStorage_drop(s.payload_storage, old_iternal_id)
        payload == dropped.ret
        put == VectorStorage_put_vector(
                   VectorStorage_delete(s.vector_storage, old_iternal_id), vector)
        new_internal_index == put.ret
        ps == IF payload # None
              THEN PayloadStorage_assign_all(dropped.ps, new_internal_index, Unwrap(payload))
              ELSE dropped.ps
    IN [s |-> [s EXCEPT !.payload_storage = ps, !.vector_storage = put.vs],
        ret |-> new_internal_index]

\* skip_by_version as it would be if version were assigned before the test.
skip_by_version_always_set(s, op_num) ==
    [s |-> [s EXCEPT !.version = op_num], ret |-> s.version > op_num]

\* skip_by_version as it would be if the comparison were reversed.
skip_by_version_reversed(s, op_num) ==
    IF s.version < op_num
    THEN [s |-> s, ret |-> TRUE]
    ELSE [s |-> [s EXCEPT !.version = op_num], ret |-> FALSE]

\* Segment::skip_by_version
skip_by_version(s, op_num) ==
    IF s.version > op_num
    THEN [s |-> s, ret |-> TRUE]
    ELSE [s |-> [s EXCEPT !.version = op_num], ret |-> FALSE]

\* lookup_internal_id as it would be if an unknown point resolved to offset 0.
lookup_internal_id_default(s, point_id) ==
    LET internal_id_opt == IdMapper_internal_id(s.id_mapper, point_id)
    IN IF internal_id_opt # None THEN Ok(Unwrap(internal_id_opt)) ELSE Ok(0)

\* Segment::lookup_internal_id
lookup_internal_id(s, point_id) ==
    LET internal_id_opt == IdMapper_internal_id(s.id_mapper, point_id)
    IN IF internal_id_opt # None
       THEN Ok(Unwrap(internal_id_opt))
       ELSE PointIdError(point_id)

\* upsert_point as it would be without the dimension check.
upsert_point_no_dim_check(s, op_num, point_id, vector) ==
    LET gate == skip_by_version(s, op_num)
        s1 == gate.s
        stored_internal_point == IdMapper_internal_id(s1.id_mapper, point_id)
        updated == update_vector(s1, Unwrap(stored_internal_point), vector)
        put == VectorStorage_put_vector(s1.vector_storage, vector)
        was_replaced == stored_internal_point # None
        s2 == IF was_replaced THEN updated.s ELSE [s1 EXCEPT !.vector_storage = put.vs]
        new_index == IF was_replaced THEN updated.ret ELSE put.ret
    IN IF gate.ret THEN [s |-> s1, res |-> Ok(FALSE), skipped |-> TRUE]
       ELSE [s |-> [s2 EXCEPT !.id_mapper = IdMapper_set_link(s2.id_mapper, point_id, new_index)],
             res |-> Ok(was_replaced), skipped |-> FALSE]

\* upsert_point as it would be if an update relinked the point to its old
\* offset instead of the one update_vector returned.
upsert_point_relink_old(s, op_num, point_id, vector) ==
    LET gate == skip_by_version(s, op_num)
        s1 == gate.s
        vector_dim == VectorStorage_vector_dim(s1.vector_storage)
        stored_internal_point == IdMapper_internal_id(s1.id_mapper, point_id)
        updated == update_vector(s1, Unwrap(stored_internal_point), vector)
        put == VectorStorage_put_vector(s1.vector_storage, vector)
        was_replaced == stored_internal_point # None
        s2 == IF was_replaced THEN updated.s ELSE [s1 EXCEPT !.vector_storage = put.vs]
        new_index == IF was_replaced THEN Unwrap(stored_internal_point) ELSE put.ret
    IN IF gate.ret THEN [s |-> s1, res |-> Ok(FALSE), skipped |-> TRUE]
       ELSE IF vector_dim # Len(vector)
       THEN [s |-> s1, res |-> WrongVector(vector_dim, Len(vector)), skipped |-> FALSE]
       ELSE [s |-> [s2 EXCEPT !.id_mapper = IdMapper_set_link(s2.id_mapper, point_id, new_index)],
             res |-> Ok(was_replaced), skipped |-> FALSE]

\* upsert_point as it would be if a new point were stored at a deleted
\* offset whenever there is one.
upsert_point_reuse_offset(s, op_num, point_id, vector) ==
    LET gate == skip_by_version(s, op_num)
        s1 == gate.s
        vector_dim == VectorStorage_vector_dim(s1.vector_storage)
        stored_internal_point == IdMapper_internal_id(s1.id_mapper, point_id)
        updated == update_vector(s1, Unwrap(stored_internal_point), vector)
        put == VectorStorage_put_vector(s1.vector_storage, vector)
        freed == s1.vector_storage.deleted
        reused == CHOOSE o \in freed : TRUE
        revived == [vectors |-> [s1.vector_storage.vectors EXCEPT ![reused + 1] = vector],
                    deleted |-> freed \ {reused}]
        was_replaced == stored_internal_point # None
        s2 == IF was_replaced THEN updated.s
              ELSE IF freed # {} THEN [s1 EXCEPT !.vector_storage = revived]
              ELSE [s1 EXCEPT !.vector_storage = put.vs]
        new_index == IF was_replaced THEN updated.ret
                     ELSE IF freed # {} THEN reused ELSE put.ret
    IN IF gate.ret THEN [s |-> s1, res |-> Ok(FALSE), skipped |-> TRUE]
       ELSE IF vector_dim # Len(vector)
       THEN [s |-> s1, res |-> WrongVector(vector_dim, Len(vector)), skipped |-> FALSE]
       ELSE [s |-> [s2 EXCEPT !.id_mapper = IdMapper_set_link(s2.id_mapper, point_id, new_index)],
             res |-> Ok(was_replaced), skipped |-> FALSE]

\* Segment::upsert_point
upsert_point(s, op_num, point_id, vector) ==
    LET gate == skip_by_version(s, op_num)
        s1 == gate.s
        vector_dim == VectorStorage_vector_dim(s1.vector_storage)
        stored_internal_point == IdMapper_internal_id(s1.id_mapper, point_id)
        updated == update_vector(s1, Unwrap(stored_internal_point), vector)
        put == VectorStorage_put_vector(s1.vector_storage, vector)
        was_replaced == stored_internal_point # None
        s2 == IF was_replaced THEN updated.s ELSE [s1 EXCEPT !.vector_storage = put.vs]
        new_index == IF was_replaced THEN updated.ret ELSE put.ret
    IN IF gate.ret THEN [s |-> s1, res |-> Ok(FALSE), skipped |-> TRUE]
       ELSE IF vector_dim # Len(vector)
       THEN [s |-> s1, res |-> WrongVector(vector_dim, Len(vector)), skipped |-> FALSE]
       ELSE [s |-> [s2 EXCEPT !.id_mapper = IdMapper_set_link(s2.id_mapper, point_id, new_index)],
             res |-> Ok(was_replaced), skipped |-> FALSE]

\* delete_point as it would be if the identifier link were not dropped.
delete_point_keep_link(s, op_num, point_id) ==
    LET gate == skip_by_version(s, op_num)
        s1 == gate.s
        internal_id == IdMapper_internal_id(s1.id_mapper, point_id)
    IN IF gate.ret THEN [s |-> s1, res |-> Ok(FALSE), skipped |-> TRUE]
       ELSE IF internal_id # None
       THEN [s |-> [s1 EXCEPT
                      !.vector_storage = VectorStorage_delete(s1.vector_storage, Unwrap(internal_id))],
             res |-> Ok(TRUE), skipped |-> FALSE]
       ELSE [s |-> s1, res |-> Ok(FALSE), skipped |-> FALSE]

\* Segment::delete_point
delete_point(s, op_num, point_id) ==
    LET gate == skip_by_version(s, op_num)
        s1 == gate.s
        internal_id == IdMapper_internal_id(s1.id_mapper, point_id)
    IN IF gate.ret THEN [s |-> s1, res |-> Ok(FALSE), skipped |-> TRUE]
       ELSE IF internal_id # None
       THEN [s |-> [s1 EXCEPT
                      !.vector_storage = VectorStorage_delete(s1.vector_storage, Unwrap(internal_id)),
                      !.id_mapper = IdMapper_drop(s1.id_mapper, point_id)],
             res |-> Ok(TRUE), skipped |-> FALSE]
       ELSE [s |-> s1, res |-> Ok(FALSE), skipped |-> FALSE]

\* set_full_payload as it would be if the given map were merged into the
\* stored payload instead of replacing it.
set_full_payload_merge(s, op_num, point_id, full_payload) ==
    LET gate == skip_by_version(s, op_num)
        s1 == gate.s
        internal_id == lookup_internal_id(s1, point_id)
        old == PayloadStorage_payload(s1.payload_storage, internal_id.val)
        merged == [k \in (DOMAIN old) \cup (DOMAIN full_payload) |->
                     IF k \in DOMAIN full_payload THEN full_payload[k] ELSE old[k]]
    IN IF gate.ret THEN [s |-> s1, res |-> Ok(FALSE), skipped |-> TRUE]
       ELSE IF internal_id.tag # "Ok"
       THEN [s |-> s1, res |-> internal_id, skipped |-> FALSE]
       ELSE [s |-> [s1 EXCEPT !.payload_storage =
                      PayloadStorage_assign_all(s1.payload_storage, internal_id.val, merged)],
             res |-> Ok(TRUE), skipped |-> FALSE]

\* Segment::set_full_payload
set_full_payload(s, op_num, point_id, full_payload) ==
    LET gate == skip_by_version(s, op_num)
        s1 == gate.s
        internal_id == lookup_internal_id(s1, point_id)
    IN IF gate.ret THEN [s |-> s1, res |-> Ok(FALSE), skipped |-> TRUE]
       ELSE IF internal_id.tag # "Ok"
       THEN [s |-> s1, res |-> internal_id, skipped |-> FALSE]
       ELSE [s |-> [s1 EXCEPT !.payload_storage =
                      PayloadStorage_assign_all(s1.payload_storage, internal_id.val, full_payload)],
             res |-> Ok(TRUE), skipped |-> FALSE]

\* set_payload as it would be if it stored the one key as the whole payload.
set_payload_replace_all(s, op_num, point_id, key, payload) ==
    LET gate == skip_by_version(s, op_num)
        s1 == gate.s
        internal_id == lookup_internal_id(s1, point_id)
    IN IF gate.ret THEN [s |-> s1, res |-> Ok(FALSE), skipped |-> TRUE]
       ELSE IF internal_id.tag # "Ok"
       THEN [s |-> s1, res |-> internal_id, skipped |-> FALSE]
       ELSE [s |-> [s1 EXCEPT !.payload_storage =
                      PayloadStorage_assign_all(s1.payload_storage, internal_id.val,
                                                MapPut(EmptyMap, key, payload))],
             res |-> Ok(TRUE), skipped |-> FALSE]

\* Segment::set_payload
set_payload(s, op_num, point_id, key, payload) ==
    LET gate == skip_by_version(s, op_num)
        s1 == gate.s
        internal_id == lookup_internal_id(s1, point_id)
    IN IF gate.ret THEN [s |-> s1, res |-> Ok(FALSE), skipped |-> TRUE]
       ELSE IF internal_id.tag # "Ok"
       THEN [s |-> s1, res |-> internal_id, skipped |-> FALSE]
       ELSE [s |-> [s1 EXCEPT !.payload_storage =
                      PayloadStorage_assign(s1.payload_storage, internal_id.val, key, payload)],
             res |-> Ok(TRUE), skipped |-> FALSE]

\* Segment::delete_payload
delete_payload(s, op_num, point_id, key) ==
    LET gate == skip_by_version(s, op_num)
        s1 == gate.s
        internal_id == lookup_internal_id(s1, point_id)
    IN IF gate.ret THEN [s |-> s1, res |-> Ok(FALSE), skipped |-> TRUE]
       ELSE IF internal_id.tag # "Ok"
       THEN [s |-> s1, res |-> internal_id, skipped |-> FALSE]
       ELSE [s |-> [s1 EXCEPT !.payload_storage =
                      PayloadStorage_delete(s1.payload_storage, internal_id.val, key)],
             res |-> Ok(TRUE), skipped |-> FALSE]

\* clear_payload as it would be if it emptied the whole payload store.
clear_payload_everything(s, op_num, point_id) ==
    LET gate == skip_by_version(s, op_num)
        s1 == gate.s
        internal_id == lookup_internal_id(s1, point_id)
    IN IF gate.ret THEN [s |-> s1, res |-> Ok(FALSE), skipped |-> TRUE]
       ELSE IF internal_id.tag # "Ok"
       THEN [s |-> s1, res |-> internal_id, skipped |-> FALSE]
       ELSE [s |-> [s1 EXCEPT !.payload_storage = << >>],
             res |-> Ok(TRUE), skipped |-> FALSE]

\* Segment::clear_payload
clear_payload(s, op_num, point_id) ==
    LET gate == skip_by_version(s, op_num)
        s1 == gate.s
        internal_id == lookup_internal_id(s1, point_id)
    IN IF gate.ret THEN [s |-> s1, res |-> Ok(FALSE), skipped |-> TRUE]
       ELSE IF internal_id.tag # "Ok"
       THEN [s |-> s1, res |-> internal_id, skipped |-> FALSE]
       ELSE [s |-> [s1 EXCEPT !.payload_storage =
                      PayloadStorage_drop(s1.payload_storage, internal_id.val).ps],
             res |-> Ok(TRUE), skipped |-> FALSE]

\* Segment::vector (the unwrap panics when the store has no vector there)
vector(s, point_id) ==
    LET internal_id == lookup_internal_id(s, point_id)
        got == VectorStorage_get_vector(s.vector_storage, internal_id.val)
    IN IF internal_id.tag # "Ok" THEN internal_id
       ELSE IF got = None THEN [tag |-> "Panic"]
       ELSE Ok(Unwrap(got))

\* Segment::payload
payload(s, point_id) ==
    LET internal_id == lookup_internal_id(s, point_id)
    IN IF internal_id.tag # "Ok" THEN internal_id
       ELSE Ok(PayloadStorage_payload(s.payload_storage, internal_id.val))

\* Segment::has_point
has_point(s, point_id) == IdMapper_internal_id(s.id_mapper, point_id) # None

\* Segment::version
version_of(s) == s.version

\* Segment::vectors_count
vectors_count(s) == VectorStorage_vector_count(s.vector_storage)

(***************************************************************************)
(* Query planner (trait QueryPlanner), without filter and search           *)
(* parameters: it scores the live vectors of the vector store by their dot *)
(* product with the query and returns up to top of them, best first, ties  *)
(* in offset order.                                                        *)
(***************************************************************************)
RECURSIVE DotProduct(_, _, _)
DotProduct(a, b, n) == IF n = 0 THEN 0 ELSE a[n] * b[n] + DotProduct(a, b, n - 1)

Score(vs, query, o) == DotProduct(query, vs.vectors[o + 1], Len(query))

Best(vs, query, offsets) ==
    CHOOSE o \in offsets :
        \A x \in offsets :
            \/ Score(vs, query, o) > Score(vs, query, x)
            \/ (Score(vs, query, o) = Score(vs, query, x) /\ o <= x)

RECURSIVE Ranked(_, _, _, _)
Ranked(vs, query, offsets, top) ==
    IF top = 0 \/ offsets = {} THEN << >>
    ELSE LET o == Best(vs, query, offsets)
         IN <<[idx |-> o, score |-> Score(vs, query, o)]>>
                \o Ranked(vs, query, offsets \ {o}, top - 1)

QueryPlanner_search(vs, query, top) ==
    Ranked(vs, query,
           {o \in 0..(Len(vs.vectors) - 1) : VectorStorage_get_vector(vs, o) # None},
           top)

\* search as it would be if it returned the internal offsets untranslated.
search_untranslated(s, query, top) ==
    LET expected_vector_dim == VectorStorage_vector_dim(s.vector_storage)
    IN IF expected_vector_dim # Len(query)
       THEN WrongVector(expected_vector_dim, Len(query))
       ELSE Ok(QueryPlanner_search(s.vector_storage, query, top))

\* Segment::search (filter and params None; the unwrap_or_else panics when
\* an offset of the planner's result has no external id)
search(s, query, top) ==
    LET expected_vector_dim == VectorStorage_vector_dim(s.vector_storage)
        internal_result == QueryPlanner_search(s.vector_storage, query, top)
    IN IF expected_vector_dim # Len(query)
       THEN WrongVector(expected_vector_dim, Len(query))
       ELSE IF \E i \in DOMAIN internal_result :
                  IdMapper_external_id(s.id_mapper, internal_result[i].idx) = None
       THEN [tag |-> "Panic"]
       ELSE Ok([i \in DOMAIN internal_result |->
                   [idx |-> Unwrap(IdMapper_external_id(s.id_mapper, internal_result[i].idx)),
                    score |-> internal_result[i].score]])

(***************************************************************************)
(* The calls a client can make: one record per mutating method of          *)
(* SegmentEntry and choice of arguments.  Apply is the call's effect: the  *)
(* segment it leaves, the Result it returns and whether the version gate   *)
(* skipped it.                                                             *)
(***************************************************************************)
UpsertCalls ==
    [op : {"upsert_point"}, op_num : OpNums, point_id : PointIds, vector : InputVectors]
DeleteCalls ==
    [op : {"delete_point"}, op_num : OpNums, point_id : PointIds]
SetFullPayloadCalls ==
    [op : {"set_full_payload"}, op_num : OpNums, point_id : PointIds,
     full_payload : PayloadMaps]
SetPayloadCalls ==
    {[op |-> "set_payload", op_num |-> n, point_id |-> p, key |-> kv[1], payload |-> kv[2]] :
        n \in OpNums, p \in PointIds, kv \in PayloadPairs}
DeletePayloadCalls ==
    [op : {"delete_payload"}, op_num : OpNums, point_id : PointIds, key : PayloadKeys]
ClearPayloadCalls ==
    [op : {"clear_payload"}, op_num : OpNums, point_id : PointIds]
\* The searches a client can make: a query vector and the number of entries
\* asked for, without filter and search parameters.
SearchCalls == [op : {"search"}, vector : InputVectors, top : 0..MaxTop]
PayloadCalls ==
    SetFullPayloadCalls \cup SetPayloadCalls \cup DeletePayloadCalls \cup ClearPayloadCalls
Calls == UpsertCalls \cup DeleteCalls \cup PayloadCalls

Apply(s, c) ==
    CASE c.op = "upsert_point" -> upsert_point(s, c.op_num, c.point_id, c.vector)
      [] c.op = "delete_point" -> delete_point(s, c.op_num, c.point_id)
      [] c.op = "set_full_payload" ->
             set_full_payload(s, c.op_num, c.point_id, c.full_payload)
      [] c.op = "set_payload" -> set_payload(s, c.op_num, c.point_id, c.key, c.payload)
      [] c.op = "delete_payload" -> delete_payload(s, c.op_num, c.point_id, c.key)
      [] c.op = "clear_payload" -> clear_payload(s, c.op_num, c.point_id)

(***************************************************************************)
(* The state machine.  A mutating operation runs one store call at a time: *)
(* its first step is the version gate, and each later step is one          *)
(* statement of the code that borrows a store.  running is the operation   *)
(* in progress with its position and locals (Idle when none is), and       *)
(* borrowed_mut the stores that were exclusively borrowed (borrow_mut)     *)
(* during the latest step.  The mutating methods take &mut self, so an     *)
(* operation starts when the one before it has returned; between two steps *)
(* of an operation the other holders of the stores can borrow every store  *)
(* whose guard the operation does not keep (Kept).                         *)
(* Three history variables follow the op_nums of the calls: issued is the  *)
(* largest op_num any call carried so far, in_order tells whether every    *)
(* call carried a larger op_num than all calls before it, and applied is   *)
(* the largest op_num of a call that passed the version gate and returns   *)
(* Ok; it is set at the gate and read when no operation is in progress.    *)
(* Only SpecHistory keeps the three up to date.  interrupted is the call   *)
(* that was cut short by the end of the process, if any (SpecSteps).       *)
(***************************************************************************)
\* No mutating operation is in progress.
Idle == [at |-> "idle"]

\* The guard that keeps the vector store within MaxOffsets offsets.
WithinBounds(out) == Len(out.s.vector_storage.vectors) <= MaxOffsets

Init ==
    /\ version = 0
    /\ id_mapper = {}
    /\ vector_storage = [vectors |-> << >>, deleted |-> {}]
    /\ payload_storage = << >>
    /\ issued = -1
    /\ applied = -1
    /\ in_order = TRUE
    /\ running = Idle
    /\ borrowed_mut = {}
    /\ interrupted = {}

Started(c, at) == [c |-> c, at |-> at, old |-> None, payload |-> None, new_index |-> None]

FirstStep(c) ==
    CASE c.op = "upsert_point" -> "vector_dim"
      [] c.op = "delete_point" -> "mapper_internal_id"
      [] OTHER -> "lookup_internal_id"

\* Lines 101, 125, 143, 155, 162, 169: call c is made and runs the version
\* gate, which returns Ok(false) or sets version and lets the body start.
\* After an interruption the segment only sees the replay of the call that
\* was cut short.
Begin(c) ==
    /\ running = Idle
    /\ interrupted = {} \/ c \in interrupted
    /\ WithinBounds(Apply(Segment, c))
    /\ version' = skip_by_version(Segment, c.op_num).s.version
    /\ running' = IF skip_by_version(Segment, c.op_num).ret
                  THEN Idle ELSE Started(c, FirstStep(c))
    /\ borrowed_mut' = {}
    /\ UNCHANGED <<id_mapper, vector_storage, payload_storage, interrupted>>

\* The calls the state machine makes: every operation, point and op_num and
\* every vector, with one choice of payload arguments per payload operation
\* (they build the payloads {}, {k}, {k2} and {k, k2} at every offset).  The
\* properties below are stated for every call of Calls.
StepCalls ==
    {c \in Calls :
        CASE c.op = "set_full_payload" -> c.full_payload = MapPut(EmptyMap, "k", "v")
          [] c.op = "set_payload" -> c.key = "k2"
          [] c.op = "delete_payload" -> c.key = "k"
          [] OTHER -> TRUE}

\* upsert_point, lines 100-101.
UpsertPoint ==
    \E c \in UpsertCalls \cap StepCalls :
        Begin(c) /\ UNCHANGED <<issued, applied, in_order>>

\* delete_point, lines 124-125.
DeletePoint ==
    \E c \in DeleteCalls \cap StepCalls :
        Begin(c) /\ UNCHANGED <<issued, applied, in_order>>

\* set_full_payload, lines 138-143.
SetFullPayload ==
    \E c \in SetFullPayloadCalls \cap StepCalls :
        Begin(c) /\ UNCHANGED <<issued, applied, in_order>>

\* set_payload, lines 149-155.
SetPayload ==
    \E c \in SetPayloadCalls \cap StepCalls :
        Begin(c) /\ UNCHANGED <<issued, applied, in_order>>

\* delete_payload, lines 161-162.
DeletePayload ==
    \E c \in DeletePayloadCalls \cap StepCalls :
        Begin(c) /\ UNCHANGED <<issued, applied, in_order>>

\* clear_payload, lines 168-169.
ClearPayload ==
    \E c \in ClearPayloadCalls \cap StepCalls :
        Begin(c) /\ UNCHANGED <<issued, applied, in_order>>

\* upsert_point, lines 103-106: the dimension check under a shared borrow.
UpsertVectorDim ==
    /\ running.at = "vector_dim"
    /\ running' = IF VectorStorage_vector_dim(vector_storage) # Len(running.c.vector)
                  THEN Idle ELSE [running EXCEPT !.at = "internal_id"]
    /\ borrowed_mut' = {}
    /\ UNCHANGED <<version, id_mapper, vector_storage, payload_storage,
                   issued, applied, in_order, interrupted>>

\* upsert_point, lines 108-111: the lookup under a shared borrow.
UpsertInternalId ==
    /\ running.at = "internal_id"
    /\ LET stored_internal_point == IdMapper_internal_id(id_mapper, running.c.point_id)
       IN running' = [running EXCEPT
                         !.old = stored_internal_point,
                         !.at = IF stored_internal_point # None
                                THEN "drop_payload" ELSE "put_vector"]
    /\ borrowed_mut' = {}
    /\ UNCHANGED <<version, id_mapper, vector_storage, payload_storage,
                   issued, applied, in_order, interrupted>>

\* update_vector, line 27.
UpdateDropPayload ==
    /\ running.at = "drop_payload"
    /\ LET dropped == PayloadStorage_drop(payload_storage, Unwrap(running.old))
       IN /\ payload_storage' = dropped.ps
          /\ running' = [running EXCEPT !.payload = dropped.ret, !.at = "delete_vector"]
    /\ borrowed_mut' = {"payload_storage"}
    /\ UNCHANGED <<version, id_mapper, vector_storage, issued, applied, in_order, interrupted>>

\* update_vector, lines 29-30: the vector store is borrowed exclusively for
\* the block of lines 28-32 and the old vector deleted; the guard is kept.
UpdateDeleteVector ==
    /\ running.at = "delete_vector"
    /\ vector_storage' = VectorStorage_delete(vector_storage, Unwrap(running.old))
    /\ running' = [running EXCEPT !.at = "update_put_vector"]
    /\ borrowed_mut' = {"vector_storage"}
    /\ UNCHANGED <<version, id_mapper, payload_storage, issued, applied, in_order, interrupted>>

\* UpdatePutVector as it would be if the vector just stored were deleted.
UpdatePutVector_delete_new ==
    /\ running.at = "update_put_vector"
    /\ LET put == VectorStorage_put_vector(vector_storage, running.c.vector)
       IN /\ vector_storage' = VectorStorage_delete(put.vs, put.ret)
          /\ running' = [running EXCEPT
                            !.new_index = Some(put.ret),
                            !.at = IF running.payload # None THEN "assign_all" ELSE "set_link"]
    /\ borrowed_mut' = {"vector_storage"}
    /\ UNCHANGED <<version, id_mapper, payload_storage, issued, applied, in_order, interrupted>>

\* update_vector, lines 31-32: the new vector is stored under the guard of
\* line 29, which the end of the block drops.
UpdatePutVector ==
    /\ running.at = "update_put_vector"
    /\ LET put == VectorStorage_put_vector(vector_storage, running.c.vector)
       IN /\ vector_storage' = put.vs
          /\ running' = [running EXCEPT
                            !.new_index = Some(put.ret),
                            !.at = IF running.payload # None THEN "assign_all" ELSE "set_link"]
    /\ borrowed_mut' = {"vector_storage"}
    /\ UNCHANGED <<version, id_mapper, payload_storage, issued, applied, in_order, interrupted>>

\* upsert_point, lines 116-117: the vector of a new point is stored.
PutVector ==
    /\ running.at = "put_vector"
    /\ LET put == VectorStorage_put_vector(vector_storage, running.c.vector)
       IN /\ vector_storage' = put.vs
          /\ running' = [running EXCEPT !.new_index = Some(put.ret), !.at = "set_link"]
    /\ borrowed_mut' = {"vector_storage"}
    /\ UNCHANGED <<version, id_mapper, payload_storage, issued, applied, in_order, interrupted>>

\* update_vector, lines 33-36.
UpdateAssignAll ==
    /\ running.at = "assign_all"
    /\ payload_storage' = PayloadStorage_assign_all(
                              payload_storage, Unwrap(running.new_index), Unwrap(running.payload))
    /\ running' = [running EXCEPT !.at = "set_link"]
    /\ borrowed_mut' = {"payload_storage"}
    /\ UNCHANGED <<version, id_mapper, vector_storage, issued, applied, in_order, interrupted>>

\* upsert_point, lines 120-121.
UpsertSetLink ==
    /\ running.at = "set_link"
    /\ id_mapper' = IdMapper_set_link(id_mapper, running.c.point_id, Unwrap(running.new_index))
    /\ running' = Idle
    /\ borrowed_mut' = {"id_mapper"}
    /\ UNCHANGED <<version, vector_storage, payload_storage, issued, applied, in_order, interrupted>>

\* delete_point, lines 126-128 and 134: mapper is borrowed exclusively and
\* kept until the function returns.
DeleteInternalId ==
    /\ running.at = "mapper_internal_id"
    /\ LET internal_id == IdMapper_internal_id(id_mapper, running.c.point_id)
       IN running' = IF internal_id # None
                     THEN [running EXCEPT !.old = internal_id, !.at = "delete_linked_vector"]
                     ELSE Idle
    /\ borrowed_mut' = {"id_mapper"}
    /\ UNCHANGED <<version, id_mapper, vector_storage, payload_storage,
                   issued, applied, in_order, interrupted>>

\* DeleteVector as it would be if the vector were not deleted from the
\* vector store.
DeleteVector_keep_vector ==
    /\ running.at = "delete_linked_vector"
    /\ running' = [running EXCEPT !.at = "drop_link"]
    /\ borrowed_mut' = {"id_mapper", "vector_storage"}
    /\ UNCHANGED <<version, id_mapper, vector_storage, payload_storage,
                   issued, applied, in_order, interrupted>>

\* delete_point, line 130: the vector store is borrowed exclusively while
\* mapper is still held.
DeleteVector ==
    /\ running.at = "delete_linked_vector"
    /\ vector_storage' = VectorStorage_delete(vector_storage, Unwrap(running.old))
    /\ running' = [running EXCEPT !.at = "drop_link"]
    /\ borrowed_mut' = {"id_mapper", "vector_storage"}
    /\ UNCHANGED <<version, id_mapper, payload_storage, issued, applied, in_order, interrupted>>

\* delete_point, lines 131-132.
DeleteDropLink ==
    /\ running.at = "drop_link"
    /\ id_mapper' = IdMapper_drop(id_mapper, running.c.point_id)
    /\ running' = Idle
    /\ borrowed_mut' = {"id_mapper"}
    /\ UNCHANGED <<version, vector_storage, payload_storage, issued, applied, in_order, interrupted>>

\* The payload operations, lines 144, 156, 163, 170: lookup_internal_id.
PayloadLookup ==
    /\ running.at = "lookup_internal_id"
    /\ LET internal_id == lookup_internal_id(Segment, running.c.point_id)
       IN running' = IF internal_id.tag = "Ok"
                     THEN [running EXCEPT !.old = Some(internal_id.val), !.at = "payload_write"]
                     ELSE Idle
    /\ borrowed_mut' = {}
    /\ UNCHANGED <<version, id_mapper, vector_storage, payload_storage,
                   issued, applied, in_order, interrupted>>

\* The payload operations, lines 145, 157, 164, 171: the store call.
PayloadWrite ==
    /\ running.at = "payload_write"
    /\ LET c == running.c
           internal_id == Unwrap(running.old)
       IN payload_storage' =
            CASE c.op = "set_full_payload" ->
                     PayloadStorage_assign_all(payload_storage, internal_id, c.full_payload)
              [] c.op = "set_payload" ->
                     PayloadStorage_assign(payload_storage, internal_id, c.key, c.payload)
              [] c.op = "delete_payload" ->
                     PayloadStorage_delete(payload_storage, internal_id, c.key)
              [] c.op = "clear_payload" ->
                     PayloadStorage_drop(payload_storage, internal_id).ps
    /\ running' = Idle
    /\ borrowed_mut' = {"payload_storage"}
    /\ UNCHANGED <<version, id_mapper, vector_storage, issued, applied, in_order, interrupted>>

\* The stores whose exclusive guard the operation in progress keeps from the
\* step just taken to its next one: mapper of delete_point (line 126, to the
\* return) and vector_storage of update_vector (line 29, to line 32).
Kept ==
    IF running = Idle THEN {}
    ELSE CASE running.at \in {"delete_linked_vector", "drop_link"} -> {"id_mapper"}
           [] running.at = "update_put_vector" -> {"vector_storage"}
           [] OTHER -> {}

\* search as it would be if a caller could run it while a mutating operation
\* is in progress.
Search_mid_operation ==
    \E c \in SearchCalls :
        /\ search(Segment, c.vector, c.top).tag # "Panic"
        /\ UNCHANGED vars

\* search, vector, payload and has_point take &self and the mutating
\* operations &mut self, so the segment's caller runs a read only when no
\* mutating operation is in progress: the read returns to the caller and
\* leaves the segment as it is; a panic ends the program.
Search ==
    \E c \in SearchCalls :
        /\ running = Idle
        /\ search(Segment, c.vector, c.top).tag # "Panic"
        /\ UNCHANGED vars

ReadPoint ==
    \E p \in PointIds :
        /\ running = Idle
        /\ vector(Segment, p).tag # "Panic"
        /\ payload(Segment, p).tag # "Panic"
        /\ has_point(Segment, p) \in BOOLEAN
        /\ UNCHANGED vars

Next ==
    \/ UpsertPoint
    \/ DeletePoint
    \/ SetFullPayload
    \/ SetPayload
    \/ DeletePayload
    \/ ClearPayload
    \/ UpsertVectorDim
    \/ UpsertInternalId
    \/ UpdateDropPayload
    \/ UpdateDeleteVector
    \/ UpdatePutVector
    \/ PutVector
    \/ UpdateAssignAll
    \/ UpsertSetLink
    \/ DeleteInternalId
    \/ DeleteVector
    \/ DeleteDropLink
    \/ PayloadLookup
    \/ PayloadWrite
    \/ ReadPoint

Spec == Init /\ [][Next]_vars

\* SpecPoints: the same operations, and search.
NextPoints ==
    \/ Next
    \/ Search

SpecPoints == Init /\ [][NextPoints]_vars

\* The history variables after the gate of a call with op_num that returns
\* out.
Track(op_num, out) ==
    /\ issued' = IF op_num > issued THEN op_num ELSE issued
    /\ in_order' = (in_order /\ op_num > issued)
    /\ applied' = IF out.res.tag = "Ok" /\ ~out.skipped /\ op_num > applied
                  THEN op_num ELSE applied

\* The calls of SpecHistory: every operation, point and op_num, with one
\* choice of payload arguments per operation and two vectors, one of them of
\* the wrong length.
HistoryCalls ==
    {c \in Calls :
        CASE c.op = "upsert_point" ->
                 c.vector \in {[i \in 1..Dim |-> 0], [i \in 1..(Dim - 1) |-> 1]}
          [] c.op = "set_full_payload" -> c.full_payload = MapPut(EmptyMap, "k", "v")
          [] c.op = "set_payload" -> c.key = "k2"
          [] c.op = "delete_payload" -> c.key = "k"
          [] OTHER -> TRUE}

\* Any of these calls is made and runs the version gate, with the history of
\* op_nums kept.
TrackedCall ==
    \E c \in HistoryCalls :
        Begin(c) /\ Track(c.op_num, Apply(Segment, c))

NextHistory ==
    \/ TrackedCall
    \/ UpsertVectorDim
    \/ UpsertInternalId
    \/ UpdateDropPayload
    \/ UpdateDeleteVector
    \/ UpdatePutVector
    \/ PutVector
    \/ UpdateAssignAll
    \/ UpsertSetLink
    \/ DeleteInternalId
    \/ DeleteVector
    \/ DeleteDropLink
    \/ PayloadLookup
    \/ PayloadWrite

SpecHistory == Init /\ [][NextHistory]_vars

\* The process ends while an operation is in progress: what the operation
\* wrote so far, version included, stays.
Interrupt ==
    /\ running # Idle
    /\ interrupted' = {running.c}
    /\ running' = Idle
    /\ borrowed_mut' = {}
    /\ UNCHANGED <<version, id_mapper, vector_storage, payload_storage,
                   issued, applied, in_order>>

NextStep ==
    \/ UpsertPoint
    \/ DeletePoint
    \/ SetFullPayload
    \/ SetPayload
    \/ DeletePayload
    \/ ClearPayload
    \/ UpsertVectorDim
    \/ UpsertInternalId
    \/ UpdateDropPayload
    \/ UpdateDeleteVector
    \/ UpdatePutVector
    \/ PutVector
    \/ UpdateAssignAll
    \/ UpsertSetLink
    \/ DeleteInternalId
    \/ DeleteVector
    \/ DeleteDropLink
    \/ PayloadLookup
    \/ PayloadWrite
    \/ Interrupt

\* SpecSteps: the operations of Spec, and the end of the process in the
\* middle of one.
SpecSteps == Init /\ [][NextStep]_vars

TypeOK ==
    /\ version \in OpNums
    /\ id_mapper \subseteq (PointIds \X (0..(MaxOffsets - 1)))
    /\ Len(vector_storage.vectors) <= MaxOffsets
    /\ vector_storage.deleted \subseteq 0..(MaxOffsets - 1)
    /\ DOMAIN payload_storage \subseteq 0..(MaxOffsets - 1)
    /\ issued \in (-1)..MaxOpNum
    /\ applied \in (-1)..MaxOpNum
    /\ in_order \in BOOLEAN
    /\ running = Idle \/ running.c \in Calls
    /\ borrowed_mut \subseteq {"id_mapper", "vector_storage", "payload_storage"}
    /\ interrupted \subseteq Calls /\ Cardinality(interrupted) <= 1

(***************************************************************************)
(* Properties.  A property of an operation is stated for every call c made *)
(* when no operation is in progress (running = Idle): Segment is the       *)
(* segment before the call and Apply(Segment, c) what the call leaves and  *)
(* returns once it has run all its steps.                                  *)
(***************************************************************************)
Stores(s) == <<s.id_mapper, s.vector_storage, s.payload_storage>>
DimOf(s) == VectorStorage_vector_dim(s.vector_storage)

\* C1 (the claim as stated): a mutating call with op_num <= version returns
\* Ok(false) and leaves version, the identifier index, the vector store and
\* the payload store as they were.
C1_StaleGateIncludingEqual ==
    running = Idle =>
        \A c \in Calls :
            c.op_num <= version =>
                (Apply(Segment, c).res = Ok(FALSE) /\ Apply(Segment, c).s = Segment)

\* C2: no call lowers version, and after calls issued in increasing op_num
\* order version equals the largest op_num issued.
C2_MonotonicVersion ==
    running = Idle =>
        /\ \A c \in Calls : Apply(Segment, c).s.version >= version
        /\ (in_order /\ issued >= 0) => version = issued

\* C2 witness: two points were stored by calls issued in increasing op_num
\* order, the last of them with the largest op_num.
C2_Witness ==
    /\ running = Idle
    /\ in_order
    /\ issued = MaxOpNum
    /\ Len(vector_storage.vectors) = 2

\* C3: once an operation with op_num n has been applied, a mutating call with
\* op_num < n returns Ok(false) and changes neither version nor any store.
C3_OutOfOrderRejected ==
    running = Idle =>
        \A c \in Calls :
            c.op_num < applied =>
                (Apply(Segment, c).res = Ok(FALSE) /\ Apply(Segment, c).s = Segment)

\* C3 witness: an operation with the largest op_num has been applied to a
\* segment holding a point with a payload, and a set_payload call with a
\* smaller op_num on that point is skipped.
C3_Witness ==
    /\ running = Idle
    /\ applied = MaxOpNum
    /\ \E c \in SetPayloadCalls :
          /\ c.op_num < applied
          /\ has_point(Segment, c.point_id)
          /\ payload(Segment, c.point_id).val # EmptyMap
          /\ payload(Segment, c.point_id) # Ok(MapPut(EmptyMap, c.key, c.payload))
          /\ Apply(Segment, c).res = Ok(FALSE)

\* C4 (the claim as stated): upsert_point with a non-stale op_num and a vector
\* of the wrong length fails with WrongVector{expected, received} and changes
\* nothing, version included.
C4_WrongVectorChangesNothing ==
    running = Idle =>
        \A c \in UpsertCalls :
            (c.op_num > version /\ Len(c.vector) # DimOf(Segment)) =>
                /\ Apply(Segment, c).res = WrongVector(DimOf(Segment), Len(c.vector))
                /\ Apply(Segment, c).s = Segment

\* C4 (amended): upsert_point with an op_num the gate lets through and a
\* vector of the wrong length fails with WrongVector{expected = dimension,
\* received = length}; the identifier index, the vector store and the payload
\* store are unchanged and version has become op_num.
C4_WrongVectorKeepsStores ==
    running = Idle =>
        \A c \in UpsertCalls :
            (c.op_num >= version /\ Len(c.vector) # DimOf(Segment)) =>
                /\ Apply(Segment, c).res = WrongVector(DimOf(Segment), Len(c.vector))
                /\ Stores(Apply(Segment, c).s) = Stores(Segment)
                /\ Apply(Segment, c).s.version = c.op_num

\* C4 witness: a segment that holds a point with a payload, on which an
\* upsert of that point with a short vector and a larger op_num fails.
C4_Witness ==
    /\ running = Idle
    /\ \E c \in UpsertCalls :
           /\ c.op_num > version
           /\ Len(c.vector) < DimOf(Segment)
           /\ has_point(Segment, c.point_id)
           /\ payload(Segment, c.point_id) # Ok(EmptyMap)
           /\ Apply(Segment, c).res.tag = "WrongVector"

\* C5: a non-stale, dimension-valid upsert_point of an existing point P keeps
\* payload(P), makes vector(P) the given vector and leaves the payload and
\* the vector of every other point as they were.
C5_UpdatePreservesPayload ==
    running = Idle =>
        \A c \in UpsertCalls :
            (/\ c.op_num >= version
             /\ Len(c.vector) = DimOf(Segment)
             /\ has_point(Segment, c.point_id)) =>
                LET after == Apply(Segment, c).s
                IN \A p \in PointIds :
                      /\ payload(after, p) = payload(Segment, p)
                      /\ vector(after, p) =
                           IF p = c.point_id THEN Ok(c.vector) ELSE vector(Segment, p)

\* C5 witness: two points with non-empty payloads, one of which an upsert
\* gives a different vector.
C5_Witness ==
    /\ running = Idle
    /\ \E c \in UpsertCalls :
           /\ c.op_num >= version
           /\ c.vector \in GoodVectors
           /\ vector(Segment, c.point_id).tag = "Ok"
           /\ vector(Segment, c.point_id) # Ok(c.vector)
           /\ \A p \in PointIds :
                 payload(Segment, p).tag = "Ok" /\ payload(Segment, p).val # EmptyMap
           /\ Apply(Segment, c).res = Ok(TRUE)

\* C6: after a non-stale delete_point(P) has_point(P) is false and vector(P)
\* and payload(P) fail with PointIdError; the call returns Ok(true) exactly
\* when P was present, and for an unknown P it returns Ok(false) with the
\* three stores unchanged.
C6_DeleteRemovesPoint ==
    running = Idle =>
        \A c \in DeleteCalls :
            c.op_num >= version =>
                LET p == c.point_id
                    out == Apply(Segment, c)
                IN /\ ~has_point(out.s, p)
                   /\ vector(out.s, p) = PointIdError(p)
                   /\ payload(out.s, p) = PointIdError(p)
                   /\ out.res = Ok(has_point(Segment, p))
                   /\ (~has_point(Segment, p) => Stores(out.s) = Stores(Segment))

\* C6 witness: a segment with one point present, with a payload, and one
\* point unknown: deleting the first returns Ok(true), the second Ok(false).
C6_Witness ==
    /\ running = Idle
    /\ \E c, d \in DeleteCalls :
           /\ c.op_num >= version /\ d.op_num >= version
           /\ payload(Segment, c.point_id).tag = "Ok"
           /\ payload(Segment, c.point_id).val # EmptyMap
           /\ ~has_point(Segment, d.point_id)
           /\ vector_storage.deleted # {}
           /\ Apply(Segment, c).res = Ok(TRUE)
           /\ Apply(Segment, d).res = Ok(FALSE)

\* C7: each payload operation, called with a non-stale op_num on a point
\* that has no link, returns PointIdError carrying that point id and changes
\* none of the three stores.
C7_PointNotFound ==
    running = Idle =>
        \A c \in PayloadCalls :
            (c.op_num >= version /\ ~has_point(Segment, c.point_id)) =>
                /\ Apply(Segment, c).res = PointIdError(c.point_id)
                /\ Stores(Apply(Segment, c).s) = Stores(Segment)

\* C7 witness: a point that was deleted and left its payload behind, next to
\* a point that is present: a set_payload on the deleted point fails.
C7_Witness ==
    /\ running = Idle
    /\ \E c \in SetPayloadCalls :
           /\ c.op_num >= version
           /\ ~has_point(Segment, c.point_id)
           /\ id_mapper # {}
           /\ \E o \in vector_storage.deleted : o \in DOMAIN payload_storage
           /\ Apply(Segment, c).res.tag = "PointIdError"

\* C8: on an existing point a non-stale set_payload binds key to value and
\* keeps every other key; a non-stale delete_payload removes key, keeps every
\* other key and succeeds with the payload unchanged when key is absent.
C8_PayloadFieldEdit ==
    running = Idle =>
        \A c \in SetPayloadCalls \cup DeletePayloadCalls :
            (c.op_num >= version /\ has_point(Segment, c.point_id)) =>
                LET out == Apply(Segment, c)
                    old == payload(Segment, c.point_id).val
                    new == payload(out.s, c.point_id).val
                IN /\ out.res = Ok(TRUE)
                   /\ payload(out.s, c.point_id).tag = "Ok"
                   /\ DOMAIN new \subseteq PayloadKeys
                   /\ \A k \in PayloadKeys \ {c.key} :
                        /\ k \in DOMAIN new <=> k \in DOMAIN old
                        /\ k \in DOMAIN old => new[k] = old[k]
                   /\ c.op = "set_payload" =>
                        (c.key \in DOMAIN new /\ new[c.key] = c.payload)
                   /\ c.op = "delete_payload" =>
                        (c.key \notin DOMAIN new /\ (c.key \notin DOMAIN old => new = old))

\* C8 witness: a point whose payload has both keys, on which set_payload
\* gives one key another value.
C8_Witness ==
    /\ running = Idle
    /\ \E c \in SetPayloadCalls :
           /\ c.op_num >= version
           /\ payload(Segment, c.point_id).tag = "Ok"
           /\ DOMAIN payload(Segment, c.point_id).val = PayloadKeys
           /\ payload(Segment, c.point_id).val[c.key] # c.payload
           /\ Apply(Segment, c).res = Ok(TRUE)

\* C9: on an existing point a non-stale set_full_payload makes the payload
\* exactly the given map, and a non-stale clear_payload makes it the empty
\* map while the point stays present with its vector unchanged.
C9_WholePayload ==
    running = Idle =>
        \A c \in SetFullPayloadCalls \cup ClearPayloadCalls :
            (c.op_num >= version /\ has_point(Segment, c.point_id)) =>
                LET out == Apply(Segment, c)
                    p == c.point_id
                IN /\ out.res = Ok(TRUE)
                   /\ c.op = "set_full_payload" => payload(out.s, p) = Ok(c.full_payload)
                   /\ c.op = "clear_payload" =>
                        /\ payload(out.s, p) = Ok(EmptyMap)
                        /\ has_point(out.s, p)
                        /\ vector(out.s, p).tag = "Ok"
                        /\ vector(out.s, p) = vector(Segment, p)

\* C9 witness: a point whose payload has both keys, on which set_full_payload
\* stores a map with one key.
C9_Witness ==
    /\ running = Idle
    /\ \E c \in SetFullPayloadCalls :
           /\ c.op_num >= version
           /\ payload(Segment, c.point_id).tag = "Ok"
           /\ DOMAIN payload(Segment, c.point_id).val = PayloadKeys
           /\ Cardinality(DOMAIN c.full_payload) = 1
           /\ Apply(Segment, c).res = Ok(TRUE)

\* C10: in every state the identifier index links each point id to at most
\* one offset and each offset to at most one point id, and after an update of
\* a point its old offset is linked to nothing.
C10_ExactlyOneMapping ==
    /\ \A p \in PointIds : Cardinality(IdMapper_internal_id(id_mapper, p)) <= 1
    /\ \A o \in {l[2] : l \in id_mapper} :
          Cardinality(IdMapper_external_id(id_mapper, o)) <= 1
    /\ running = Idle =>
          \A c \in UpsertCalls :
              (/\ c.op_num >= version
               /\ Len(c.vector) = DimOf(Segment)
               /\ has_point(Segment, c.point_id)) =>
                  LET new_mapper == Apply(Segment, c).s.id_mapper
                  IN \A old \in IdMapper_internal_id(id_mapper, c.point_id) :
                        /\ IdMapper_external_id(new_mapper, old) = None
                        /\ old \notin IdMapper_internal_id(new_mapper, c.point_id)

\* C10 witness: two points are linked, at two offsets, and an upsert updates
\* one of them.
C10_Witness ==
    /\ running = Idle
    /\ \E c \in UpsertCalls :
           /\ c.op_num >= version
           /\ c.vector \in GoodVectors
           /\ Cardinality(id_mapper) = 2
           /\ Apply(Segment, c).res = Ok(TRUE)

\* The offsets at which the vector store holds a vector that is not deleted.
LiveOffsets(s) ==
    {o \in 0..(Len(s.vector_storage.vectors) - 1) :
        VectorStorage_get_vector(s.vector_storage, o) # None}

\* The offsets the identifier index links to some point id.
LinkedOffsets(s) == {l[2] : l \in s.id_mapper}

\* C11 (the claim as stated): every linked offset with a live vector has a
\* payload entry (the payload store answers payload(offset) with a map,
\* possibly empty), and every offset with a non-empty payload entry holds a
\* live vector and is linked in the identifier index.
C11_NoOrphan ==
    running = Idle =>
        /\ \A o \in LinkedOffsets(Segment) \cap LiveOffsets(Segment) :
              DOMAIN PayloadStorage_payload(payload_storage, o) \subseteq PayloadKeys
        /\ \A o \in DOMAIN payload_storage :
              payload_storage[o] # EmptyMap =>
                  o \in LinkedOffsets(Segment) \cap LiveOffsets(Segment)

\* C12: search with a query of the wrong length fails with WrongVector;
\* otherwise its result has the length of the planner's result, at most top,
\* with the planner's scores in the planner's order, and its i-th id is the
\* point id linked to the planner's i-th offset, a point that is present.
\* search takes &self and returns only the result: no store changes.
C12_SearchTranslation ==
    running = Idle =>
        \A c \in SearchCalls :
            LET res == search(Segment, c.vector, c.top)
                planned == QueryPlanner_search(vector_storage, c.vector, c.top)
            IN IF Len(c.vector) # DimOf(Segment)
               THEN res = WrongVector(DimOf(Segment), Len(c.vector))
               ELSE /\ res.tag = "Ok"
                    /\ Len(res.val) = Len(planned)
                    /\ Len(res.val) <= c.top
                    /\ \A i \in DOMAIN planned :
                          /\ res.val[i].score = planned[i].score
                          /\ <<res.val[i].idx, planned[i].idx>> \in id_mapper
                          /\ has_point(Segment, res.val[i].idx)
                          /\ i > 1 => planned[i - 1].score >= planned[i].score

\* C12 witness: two points with different vectors are present, and a search
\* for one entry returns the point with the better score, which is not the
\* one at the lowest offset.
C12_Witness ==
    /\ running = Idle
    /\ Cardinality(id_mapper) = 2
    /\ \E c \in SearchCalls :
          /\ c.top = 1
          /\ c.vector \in GoodVectors
          /\ search(Segment, c.vector, 1).tag = "Ok"
          /\ Len(search(Segment, c.vector, 1).val) = 1
          /\ Len(search(Segment, c.vector, MaxTop).val) = 2
          /\ \E l \in id_mapper :
                /\ l[1] = search(Segment, c.vector, 1).val[1].idx
                /\ \E k \in id_mapper : k[2] < l[2]

\* C13: in every state reached by completed mutating operations each offset
\* with a non-deleted vector has an external id in the identifier index, and
\* no search panics.
C13_NoIndexCorruption ==
    running = Idle =>
        /\ \A o \in LiveOffsets(Segment) : IdMapper_external_id(id_mapper, o) # None
        /\ \A c \in SearchCalls : search(Segment, c.vector, c.top).tag # "Panic"

\* C13 witness: one point was deleted or updated, another vector is live, and
\* a search returns it.
C13_Witness ==
    /\ running = Idle
    /\ vector_storage.deleted # {}
    /\ LiveOffsets(Segment) # {}
    /\ \E c \in SearchCalls :
          /\ search(Segment, c.vector, c.top).tag = "Ok"
          /\ Len(search(Segment, c.vector, c.top).val) = 1

\* C14 (the claim as stated): at every step of a mutating operation at most
\* one of the identifier index, the vector store and the payload store is
\* exclusively borrowed.
C14_OneExclusiveBorrow == Cardinality(borrowed_mut) <= 1

C17_ReplaySkipped ==
    \A c \in interrupted :
        (running = Idle /\ version = c.op_num) =>
            /\ Apply(Segment, c).res = Ok(FALSE)
            /\ Apply(Segment, c).skipped
            /\ Stores(Apply(Segment, c).s) = Stores(Segment)

\* C16 (the claim as stated): an upsert_point with an op_num above version
\* and a vector of the store's dimension returns Ok(true) when the point was
\* linked, leaves the point present with the given vector, and when the
\* point was not linked returns a result other than the Ok(false) a stale
\* call gets.
C16_UpsertOutcome ==
    running = Idle =>
        \A c \in UpsertCalls :
            (c.op_num > version /\ Len(c.vector) = DimOf(Segment)) =>
                LET out == Apply(Segment, c)
                IN /\ has_point(Segment, c.point_id) => out.res = Ok(TRUE)
                   /\ has_point(out.s, c.point_id)
                   /\ vector(out.s, c.point_id) = Ok(c.vector)
                   /\ ~has_point(Segment, c.point_id) => out.res # Ok(FALSE)

\* C18: in every state reached by completed mutating operations each point
\* that has_point reports is linked to an offset with a non-deleted vector,
\* so vector(point_id) returns Ok and its unwrap does not panic.
C18_LinkedPointHasVector ==
    running = Idle =>
        \A p \in PointIds :
            /\ vector(Segment, p).tag # "Panic"
            /\ has_point(Segment, p) =>
                  /\ IdMapper_internal_id(id_mapper, p) \subseteq LiveOffsets(Segment)
                  /\ vector(Segment, p).tag = "Ok"
                  /\ vector(Segment, p).val \in GoodVectors

\* C18 witness: a point that was updated (its first offset is deleted) is
\* present next to a point that is not, and vector returns its vector.
C18_Witness ==
    /\ running = Idle
    /\ \E p, q \in PointIds :
           /\ has_point(Segment, p)
           /\ ~has_point(Segment, q)
           /\ vector_storage.deleted # {}
           /\ IdMapper_internal_id(id_mapper, p) = {Len(vector_storage.vectors) - 1}
           /\ vector(Segment, p).tag = "Ok"

\* C19: a non-stale payload operation on an existing point P changes only
\* version and the payload entry at P's offset: the identifier index, the
\* vector store with its counts, the payload entries at all other offsets
\* and the payloads of all other points stay as they were.
C19_PayloadOpConfined ==
    running = Idle =>
        \A c \in PayloadCalls :
            (c.op_num >= version /\ has_point(Segment, c.point_id)) =>
                LET after == Apply(Segment, c).s
                    at == Unwrap(IdMapper_internal_id(id_mapper, c.point_id))
                IN /\ after.version = c.op_num
                   /\ after.id_mapper = id_mapper
                   /\ after.vector_storage = vector_storage
                   /\ vectors_count(after) = vectors_count(Segment)
                   /\ VectorStorage_deleted_count(after.vector_storage)
                         = VectorStorage_deleted_count(vector_storage)
                   /\ (DOMAIN after.payload_storage) \ {at} = (DOMAIN payload_storage) \ {at}
                   /\ \A o \in (DOMAIN payload_storage) \ {at} :
                         after.payload_storage[o] = payload_storage[o]
                   /\ \A p \in PointIds \ {c.point_id} : payload(after, p) = payload(Segment, p)

\* C19 witness: two points with non-empty payloads, one of which a
\* clear_payload empties.
C19_Witness ==
    /\ running = Idle
    /\ \E c \in ClearPayloadCalls :
           /\ c.op_num >= version
           /\ \A p \in PointIds :
                 payload(Segment, p).tag = "Ok" /\ payload(Segment, p).val # EmptyMap
           /\ Apply(Segment, c).res = Ok(TRUE)
           /\ Apply(Segment, c).s.payload_storage # payload_storage

\* C20: with a vector store that hands out each offset once, the payload a
\* deleted point left behind is read by no point: no linked offset is a
\* deleted one, no payload entry sits at an offset not handed out yet, and a
\* non-stale upsert_point that inserts a point leaves it with the empty
\* payload and every other point with the payload it had.
C20_DeletedPayloadStaysGone ==
    running = Idle =>
        /\ \A l \in id_mapper : l[2] \notin vector_storage.deleted
        /\ DOMAIN payload_storage \subseteq 0..(Len(vector_storage.vectors) - 1)
        /\ \A c \in UpsertCalls :
              (/\ c.op_num >= version
               /\ Len(c.vector) = DimOf(Segment)
               /\ ~has_point(Segment, c.point_id)) =>
                  LET after == Apply(Segment, c).s
                  IN /\ payload(after, c.point_id) = Ok(EmptyMap)
                     /\ \A p \in PointIds \ {c.point_id} : payload(after, p) = payload(Segment, p)

\* C20 witness: a deleted point left a non-empty payload at its offset,
\* which is linked to no point, and an upsert_point inserts a point that is
\* not present.
C20_Witness ==
    /\ running = Idle
    /\ \E o \in vector_storage.deleted :
          /\ PayloadStorage_payload(payload_storage, o) # EmptyMap
          /\ IdMapper_external_id(id_mapper, o) = None
    /\ \E c \in UpsertCalls :
          /\ c.op_num >= version
          /\ c.vector \in GoodVectors
          /\ ~has_point(Segment, c.point_id)
          /\ WithinBounds(Apply(Segment, c))
          /\ Apply(Segment, c).res = Ok(FALSE)
          /\ has_point(Apply(Segment, c).s, c.point_id)
====
